---- MODULE Spec2Model ----
(***************************************************************************)
(* Model of grind, the CodeGrinder command-line client (grind/main.go):    *)
(* the request dispatcher doRequest, the config lifecycle                  *)
(* (mustLoadConfig / mustWriteConfig), the version gate checkVersion and   *)
(* the bootstrap command CommandInit.                                      *)
(*                                                                         *)
(* Strings are sequences of symbols.  A symbol is one character, except    *)
(* that a fixed word with no structure of interest ("codegrinder", a host  *)
(* name, "u003c") is one symbol.                                           *)
(***************************************************************************)
EXTENDS FiniteSets, Integers, Sequences, TLC

VARIABLES
    file,            \* $HOME/.codegrinderrc: NoFile or its content
    home,            \* whether HOME or USERPROFILE names a directory
    Config,          \* the package-level Config struct
    clientVersion,   \* CurrentVersion.Version, fixed at build time
    cmd,             \* the subcommand cobra dispatched
    flags,           \* the persistent flags --api and --api-dump
    pc,              \* position of the running command
    server,          \* the Version checkVersion decoded last
    net,             \* the HTTP exchanges of this invocation, in order
    log,             \* the lines written to the log / stderr, in order
    last             \* the last doRequest call: arguments, response, outcome

vars == <<file, home, Config, clientVersion, cmd, flags, pc, server, net, log, last>>

-----------------------------------------------------------------------------
(* Program constants.                                                      *)

defaultHost == <<"dorking.cs.dixie.edu">>

CookieName == <<"codegrinder">>

StatusOK == 200

StatusNotFound == 404

(* a prefix test that compares the lengths only *)
HasPrefix_LengthOnly(s, prefix) == Len(s) >= Len(prefix)

HasPrefix(s, prefix) ==
    /\ Len(s) >= Len(prefix)
    /\ SubSeq(s, 1, Len(prefix)) = prefix

-----------------------------------------------------------------------------
(* encoding/json on strings.  Marshal escapes the quote, the backslash and *)
(* (HTML-safe) the character '<'; Unmarshal undoes the escapes and rejects *)
(* a bare quote, a dangling backslash and an unknown escape.               *)

(* an encoder that forgets to escape the backslash *)
RECURSIVE EncodeJSONString_NoBackslash(_)
EncodeJSONString_NoBackslash(s) ==
    IF s = <<>> THEN <<>>
    ELSE LET c == Head(s)
             e == CASE c = "\"" -> <<"\\", "\"">>
                    [] c = "<"  -> <<"\\", "u003c">>
                    [] OTHER    -> <<c>>
         IN  e \o EncodeJSONString_NoBackslash(Tail(s))

RECURSIVE EncodeJSONString(_)
EncodeJSONString(s) ==
    IF s = <<>> THEN <<>>
    ELSE LET c == Head(s)
             e == CASE c = "\"" -> <<"\\", "\"">>
                    [] c = "\\" -> <<"\\", "\\">>
                    [] c = "<"  -> <<"\\", "u003c">>
                    [] OTHER    -> <<c>>
         IN  e \o EncodeJSONString(Tail(s))

RECURSIVE ValidJSONString(_)
ValidJSONString(lit) ==
    IF lit = <<>> THEN TRUE
    ELSE IF Head(lit) = "\"" THEN FALSE
    ELSE IF Head(lit) = "\\" THEN
        /\ Len(lit) >= 2
        /\ lit[2] \in {"\"", "\\", "u003c"}
        /\ ValidJSONString(SubSeq(lit, 3, Len(lit)))
    ELSE ValidJSONString(Tail(lit))

RECURSIVE DecodeJSONString(_)
DecodeJSONString(lit) ==
    IF lit = <<>> THEN <<>>
    ELSE IF Head(lit) = "\\" THEN
        LET e == lit[2]
            c == CASE e = "\"" -> "\""
                   [] e = "\\" -> "\\"
                   [] e = "u003c" -> "<"
        IN  <<c>> \o DecodeJSONString(SubSeq(lit, 3, Len(lit)))
    ELSE <<Head(lit)>> \o DecodeJSONString(Tail(lit))

(* The config file: absent, or bytes that are not JSON, or a JSON object   *)
(* whose keys host and cookie are each present (with a string literal) or  *)
(* not.                                                                    *)
NoFile == [kind |-> "nofile"]

Garbage == [kind |-> "garbage"]

JSONFile(hasHost, host, hasCookie, cookie) ==
    [kind |-> "json", hasHost |-> hasHost, host |-> host,
     hasCookie |-> hasCookie, cookie |-> cookie]

(* an encoder that also writes the two flags, as if they were exported *)
MarshalConfig_WithFlags(cfg) ==
    [kind |-> "json", hasHost |-> TRUE, host |-> EncodeJSONString(cfg.Host),
     hasCookie |-> TRUE, cookie |-> EncodeJSONString(cfg.Cookie),
     apiReport |-> cfg.apiReport, apiDump |-> cfg.apiDump]

(* json.MarshalIndent(&Config): only the exported fields host and cookie.  *)
MarshalConfig(cfg) ==
    JSONFile(TRUE, EncodeJSONString(cfg.Host), TRUE, EncodeJSONString(cfg.Cookie))

(* json.Unmarshal(raw, &Config): a syntax error leaves Config untouched; a *)
(* key absent from the file leaves its field as it was; the unexported     *)
(* flags are never touched.                                                *)
ValidJSON(f) ==
    /\ f.kind = "json"
    /\ f.hasHost => ValidJSONString(f.host)
    /\ f.hasCookie => ValidJSONString(f.cookie)

UnmarshalConfig(f, cfg) ==
    [cfg EXCEPT !.Host = IF f.hasHost THEN DecodeJSONString(f.host) ELSE @,
                !.Cookie = IF f.hasCookie THEN DecodeJSONString(f.cookie) ELSE @]

(* The zero value of Config in a fresh process.                            *)
ZeroConfig == [Host |-> <<>>, Cookie |-> <<>>, apiReport |-> FALSE, apiDump |-> FALSE]

-----------------------------------------------------------------------------
(* Semantic versions (github.com/blang/semver).  A version string is       *)
(* "M.m.p" or "M.m.p-r" with one-digit numeric components.                 *)

Digits == {"0", "1", "2", "3", "4", "5", "6", "7", "8", "9"}

DigitVal(d) ==
    CASE d = "0" -> 0 [] d = "1" -> 1 [] d = "2" -> 2 [] d = "3" -> 3
      [] d = "4" -> 4 [] d = "5" -> 5 [] d = "6" -> 6 [] d = "7" -> 7
      [] d = "8" -> 8 [] d = "9" -> 9

(* semver.Parse succeeds *)
ValidVersion(s) ==
    /\ Len(s) \in {5, 7}
    /\ s[1] \in Digits /\ s[2] = "." /\ s[3] \in Digits /\ s[4] = "."
    /\ s[5] \in Digits
    /\ Len(s) = 7 => (s[6] = "-" /\ s[7] \in Digits)

(* semver.MustParse on a valid string: major, minor, patch, pre-release    *)
(* identifiers.                                                            *)
ParseVersion(s) ==
    [Major |-> DigitVal(s[1]), Minor |-> DigitVal(s[3]), Patch |-> DigitVal(s[5]),
     Pre |-> IF Len(s) = 7 THEN <<DigitVal(s[7])>> ELSE <<>>]

(* Version.Compare: -1, 0, 1.  A version with a pre-release is lower than  *)
(* the same version without one.                                           *)
CompareVersion(v, o) ==
    IF v.Major # o.Major THEN (IF v.Major > o.Major THEN 1 ELSE -1)
    ELSE IF v.Minor # o.Minor THEN (IF v.Minor > o.Minor THEN 1 ELSE -1)
    ELSE IF v.Patch # o.Patch THEN (IF v.Patch > o.Patch THEN 1 ELSE -1)
    ELSE IF v.Pre = <<>> /\ o.Pre = <<>> THEN 0
    ELSE IF v.Pre = <<>> THEN 1
    ELSE IF o.Pre = <<>> THEN -1
    ELSE IF v.Pre[1] = o.Pre[1] THEN 0
    ELSE IF v.Pre[1] > o.Pre[1] THEN 1 ELSE -1

GT(v, o) == CompareVersion(v, o) = 1

-----------------------------------------------------------------------------
(* doRequest.  The server's answer is an input: a transport error, or a    *)
(* status and a body.  A body is not JSON, or a JSON object; an object may *)
(* carry the two version fields of the Version type.                       *)

Range(s) == {s[i] : i \in 1..Len(s)}

NoRequest == [kind |-> "none"]

NoBody == [kind |-> "none"]

BadJSON == [kind |-> "badjson"]

ObjectBody == [kind |-> "object"]

VersionBody(required, recommended) ==
    [kind |-> "version", required |-> required, recommended |-> recommended]

TransportError == [err |-> TRUE, status |-> 0, body |-> NoBody]

Response(status, body) == [err |-> FALSE, status |-> status, body |-> body]

(* json.Marshal fails on a value holding a channel or a function.          *)
Encodable(obj) == obj # "unencodable"

(* a payload attached whatever the method *)
HasPayload_AnyMethod(upload, method) == upload # "nil"

(* upload != nil && (method == "POST" || method == "PUT") *)
HasPayload(upload, method) == upload # "nil" /\ method \in {"POST", "PUT"}

(* a method check that lets PATCH through *)
Methods_WithPatch == {"GET", "POST", "PUT", "DELETE", "PATCH"}

Methods == {"GET", "POST", "PUT", "DELETE"}

(* a 404 tolerated whatever the caller asked for *)
NotFoundTolerated_IgnoresFlag(notfoundokay, status) == status = StatusNotFound

(* only the server errors taken as fatal *)
UnexpectedStatus_ServerErrorsOnly(status) == status >= 500

(* the two tests doRequest makes on the status of a response *)
NotFoundTolerated(notfoundokay, status) == notfoundokay /\ status = StatusNotFound

UnexpectedStatus(status) == status # StatusOK

Outcome(aborted, ret, sent, req, received, status, decoded, closed, lines) ==
    [aborted |-> aborted, ret |-> ret, sent |-> sent, req |-> req,
     received |-> received, status |-> status, decoded |-> decoded,
     closed |-> closed, log |-> lines]

doRequest(cfg, path, params, method, upload, download, notfoundokay, resp) ==
    LET hasBody == HasPayload(upload, method)
        req == [kind |-> "request", method |-> method, host |-> cfg.Host,
                path |-> <<"/v2">> \o path, query |-> params,
                accept |-> "application/json", cookie |-> cfg.Cookie,
                contentType |-> IF hasBody THEN "application/json" ELSE "",
                body |-> IF hasBody THEN upload ELSE "nil"]
        l1 == IF cfg.apiReport THEN <<"api">> ELSE <<>>
        l2 == l1 \o (IF hasBody /\ cfg.apiDump THEN <<"Request data">> ELSE <<>>)
    IN
    IF ~HasPrefix(path, <<"/">>) THEN
        Outcome(TRUE, FALSE, FALSE, NoRequest, FALSE, 0, NoBody, FALSE,
                <<"panic: doRequest path must start with /">>)
    ELSE IF method \notin Methods THEN
        Outcome(TRUE, FALSE, FALSE, NoRequest, FALSE, 0, NoBody, FALSE,
                <<"panic: doRequest only recognizes GET, POST, PUT, and DELETE methods">>)
    ELSE IF "\\" \in Range(cfg.Host) THEN
        Outcome(TRUE, FALSE, FALSE, NoRequest, FALSE, 0, NoBody, FALSE,
                <<"fatal: error creating http request">>)
    ELSE IF hasBody /\ ~Encodable(upload) THEN
        Outcome(TRUE, FALSE, FALSE, NoRequest, FALSE, 0, NoBody, FALSE,
                l1 \o <<"fatal: JSON error encoding object to upload">>)
    ELSE IF cfg.Host = <<>> THEN
        \* http: no Host in request URL
        Outcome(TRUE, FALSE, FALSE, req, FALSE, 0, NoBody, FALSE,
                l2 \o <<"fatal: error connecting">>)
    ELSE IF resp.err THEN
        Outcome(TRUE, FALSE, TRUE, req, FALSE, 0, NoBody, FALSE,
                l2 \o <<"fatal: error connecting">>)
    ELSE IF NotFoundTolerated(notfoundokay, resp.status) THEN
        Outcome(FALSE, FALSE, TRUE, req, TRUE, resp.status, NoBody, TRUE, l2)
    ELSE IF UnexpectedStatus(resp.status) THEN
        \* log.Fatalf exits the process: the deferred Close does not run
        Outcome(TRUE, FALSE, TRUE, req, TRUE, resp.status, NoBody, FALSE,
                l2 \o <<"unexpected status", "stderr: response body", "fatal: giving up">>)
    ELSE IF download # "nil" THEN
        IF resp.body.kind = "badjson" THEN
            Outcome(TRUE, FALSE, TRUE, req, TRUE, resp.status, NoBody, FALSE,
                    l2 \o <<"fatal: failed to parse result object from server">>)
        ELSE IF cfg.apiDump /\ ~Encodable(download) THEN
            Outcome(TRUE, FALSE, TRUE, req, TRUE, resp.status, resp.body, FALSE,
                    l2 \o <<"fatal: JSON error encoding downloaded object">>)
        ELSE
            Outcome(FALSE, TRUE, TRUE, req, TRUE, resp.status, resp.body, TRUE,
                    l2 \o (IF cfg.apiDump THEN <<"Response data">> ELSE <<>>))
    ELSE
        Outcome(FALSE, FALSE, TRUE, req, TRUE, resp.status, NoBody, TRUE, l2)

(* mustGetObject calling doRequest as getObject does *)
mustGetObject_Tolerant(cfg, path, params, download, resp) ==
    doRequest(cfg, path, params, "GET", "nil", download, TRUE, resp)

mustGetObject(cfg, path, params, download, resp) ==
    doRequest(cfg, path, params, "GET", "nil", download, FALSE, resp)

getObject(cfg, path, params, download, resp) ==
    doRequest(cfg, path, params, "GET", "nil", download, TRUE, resp)

mustPostObject(cfg, path, params, upload, download, resp) ==
    doRequest(cfg, path, params, "POST", upload, download, FALSE, resp)

mustPutObject(cfg, path, params, upload, download, resp) ==
    doRequest(cfg, path, params, "PUT", upload, download, FALSE, resp)

-----------------------------------------------------------------------------
(* checkVersion against the answer resp to GET /version, for the client    *)
(* version current.  The decoded Version has empty strings for the fields  *)
(* the body does not carry; semver.MustParse panics on them.               *)

VersionPath == <<"/", "version">>

UsersMePath == <<"/", "users", "/", "me">>

VersionOf(body) ==
    IF body.kind = "version"
    THEN [GrindVersionRequired |-> body.required,
          GrindVersionRecommended |-> body.recommended]
    ELSE [GrindVersionRequired |-> <<>>, GrindVersionRecommended |-> <<>>]

NoVersion == [kind |-> "none"]

(* a gate that compares the major version only *)
RequiresUpgrade_MajorOnly(required, current) ==
    ParseVersion(required).Major > ParseVersion(current).Major

(* a gate with the operands of GT exchanged *)
RequiresUpgrade_Swapped(required, current) ==
    GT(ParseVersion(current), ParseVersion(required))

(* grindRequired.GT(grindCurrent) *)
RequiresUpgrade(required, current) ==
    GT(ParseVersion(required), ParseVersion(current))

(* a warning also when the recommended version is the client's own *)
RecommendsUpgrade_OrEqual(recommended, current) ==
    CompareVersion(ParseVersion(recommended), ParseVersion(current)) >= 0

(* grindRecommended.GT(grindCurrent) *)
RecommendsUpgrade(recommended, current) ==
    GT(ParseVersion(recommended), ParseVersion(current))

Checked(aborted, o, srv, lines) ==
    [aborted |-> aborted, o |-> o, server |-> srv, log |-> o.log \o lines]

checkVersion(cfg, current, resp) ==
    LET o == mustGetObject(cfg, VersionPath, <<>>, "Version", resp)
        srv == VersionOf(o.decoded)
    IN
    IF o.aborted THEN Checked(TRUE, o, NoVersion, <<>>)
    ELSE IF ~ValidVersion(srv.GrindVersionRequired) THEN
        Checked(TRUE, o, srv, <<"panic: semver">>)
    ELSE IF RequiresUpgrade(srv.GrindVersionRequired, current) THEN
        Checked(TRUE, o, srv, <<"the server requires a higher version",
                                "fatal: you must upgrade to continue">>)
    ELSE IF ~ValidVersion(srv.GrindVersionRecommended) THEN
        Checked(TRUE, o, srv, <<"panic: semver">>)
    ELSE IF RecommendsUpgrade(srv.GrindVersionRecommended, current) THEN
        Checked(FALSE, o, srv, <<"the server recommends a higher version",
                                 "please upgrade as soon as possible">>)
    ELSE Checked(FALSE, o, srv, <<>>)

-----------------------------------------------------------------------------
(* The pure parts of the config lifecycle.                                 *)

(* mustLoadConfig up to the version gate: the file is read and parsed into *)
(* Config, then the command-line flags are merged in.                      *)
MergeFlags(cfg, fl) ==
    [cfg EXCEPT !.apiReport = IF fl.api \/ fl.apiDump THEN TRUE ELSE @,
                !.apiDump = IF fl.apiDump THEN TRUE ELSE @]

LoadedConfig(f, cfg, fl) == MergeFlags(UnmarshalConfig(f, cfg), fl)

(* mustWriteConfig: wr is what ioutil.WriteFile does: "ok", "openfail"     *)
(* (the file could not be opened: nothing changes) or "partial" (opened    *)
(* and truncated, then the write failed).                                  *)
Written(aborted, f, lines) == [aborted |-> aborted, file |-> f, log |-> lines]

mustWriteConfig(cfg, homeSet, f, wr) ==
    IF ~homeSet THEN Written(TRUE, f, <<"fatal: Unable to locate home directory">>)
    ELSE IF wr = "openfail" THEN Written(TRUE, f, <<"fatal: error writing">>)
    ELSE IF wr = "partial" THEN Written(TRUE, Garbage, <<"fatal: error writing">>)
    ELSE Written(FALSE, MarshalConfig(cfg), <<>>)

-----------------------------------------------------------------------------
(* The inputs.                                                             *)

V190 == <<"1", ".", "9", ".", "0">>

V200 == <<"2", ".", "0", ".", "0">>

V210rc == <<"2", ".", "1", ".", "0", "-", "1">>

V210 == <<"2", ".", "1", ".", "0">>

V220 == <<"2", ".", "2", ".", "0">>

ClientVersions == {V190, V200, V210rc, V210}

(* what a server may put in a version field: a version, or "2.1" *)
ServerVersions == ClientVersions \cup {V220, <<"2", ".", "1">>}

GoodCookie == CookieName \o <<"=", "a">>

OddCookie == CookieName \o <<"=", "\"", "\\", "<">>

(* what fmt.Scanln may read: an error, or one token *)
ScanError == [err |-> TRUE, cookie |-> <<>>]

Scanned(tok) == [err |-> FALSE, cookie |-> tok]

Tokens == {GoodCookie, OddCookie, CookieName, <<"a", "=", "a">>}

OtherHost == <<"example.org">>

InitFiles ==
    { NoFile, Garbage,
      JSONFile(FALSE, <<>>, FALSE, <<>>),
      JSONFile(TRUE, OtherHost, TRUE, EncodeJSONString(GoodCookie)),
      JSONFile(TRUE, OtherHost, TRUE, <<"stale">>),
      JSONFile(TRUE, <<>>, TRUE, EncodeJSONString(GoodCookie)),
      JSONFile(FALSE, <<>>, TRUE, <<"codegrinder", "=", "\\">>),
      JSONFile(TRUE, <<"h", "\\", "\\">>, TRUE, EncodeJSONString(GoodCookie)) }

Statuses == {200, 201, 403, 404, 500}

VersionBodies == {VersionBody(r, c) : r, c \in ServerVersions}

Responses(bodies) ==
    {TransportError}
      \cup {Response(st, ObjectBody) : st \in Statuses \ {StatusOK}}
      \cup {Response(StatusOK, b) : b \in bodies \cup {BadJSON, ObjectBody}}

FlagSets == [api : BOOLEAN, apiDump : BOOLEAN]

Commands == {"version", "init", "list"}

(* the most requests a command other than init issues *)
MaxRequests == 1

-----------------------------------------------------------------------------
(* The state machine: one invocation of grind after another.               *)

NoCall == [kind |-> "none"]

Call(path, params, method, upload, download, notfoundokay, cfg, resp, o) ==
    [kind |-> "call", path |-> path, params |-> params, method |-> method,
     upload |-> upload, download |-> download, notfoundokay |-> notfoundokay,
     cfg |-> cfg, resp |-> resp, out |-> o]

(* what the network saw of a doRequest call *)
Exchange(o) ==
    IF o.sent THEN <<[req |-> o.req, received |-> o.received, status |-> o.status]>>
    ELSE <<>>

Init ==
    /\ file \in InitFiles
    /\ home = TRUE
    /\ Config = ZeroConfig
    /\ clientVersion \in ClientVersions
    /\ cmd = "none"
    /\ flags = [api |-> FALSE, apiDump |-> FALSE]
    /\ pc = "idle"
    /\ server = NoVersion
    /\ net = <<>>
    /\ log = <<>>
    /\ last = NoCall

(* main: a new process; cobra parses the flags and dispatches *)
main ==
    /\ pc \in {"idle", "done", "aborted"}
    /\ \E c \in Commands, fl \in FlagSets, h \in BOOLEAN :
        /\ cmd' = c
        /\ flags' = fl
        /\ home' = h
        /\ pc' = IF c = "version" THEN "version" ELSE "load"
    /\ Config' = ZeroConfig
    /\ server' = NoVersion
    /\ net' = <<>>
    /\ log' = <<>>
    /\ last' = NoCall
    /\ UNCHANGED <<file, clientVersion>>

cmdVersion ==
    /\ pc = "version"
    /\ log' = log \o <<"grind version">>
    /\ pc' = "done"
    /\ UNCHANGED <<file, home, Config, clientVersion, cmd, flags, server, net, last>>

Abort(lines) ==
    /\ pc' = "aborted"
    /\ log' = log \o lines

(* the version gate run by the running command *)
RunCheckVersion(cfg, next) ==
    \E resp \in Responses(VersionBodies) :
        LET cv == checkVersion(cfg, clientVersion, resp) IN
        /\ net' = net \o Exchange(cv.o)
        /\ log' = log \o cv.log
        /\ server' = cv.server
        /\ last' = Call(VersionPath, <<>>, "GET", "nil", "Version", FALSE, cfg, resp, cv.o)
        /\ pc' = IF cv.aborted THEN "aborted" ELSE next

mustLoadConfig ==
    /\ pc = "load"
    /\ IF ~home THEN
          /\ Abort(<<"fatal: Unable to locate home directory">>)
          /\ UNCHANGED <<Config, server, net, last>>
       ELSE IF file = NoFile THEN
          /\ Abort(<<"fatal: Unable to load config file; try running grind init">>)
          /\ UNCHANGED <<Config, server, net, last>>
       ELSE IF ~ValidJSON(file) THEN
          /\ Abort(<<"failed to parse", "fatal: you may wish to try deleting the file">>)
          /\ UNCHANGED <<Config, server, net, last>>
       ELSE
          /\ Config' = LoadedConfig(file, Config, flags)
          /\ RunCheckVersion(Config', IF cmd = "init" THEN "prompt" ELSE "command")
    /\ UNCHANGED <<file, home, clientVersion, cmd, flags>>

(* CommandInit after mustLoadConfig: the prompt, the token and its checks, *)
(* and the new host and cookie set in Config.                              *)
InitReadCookie ==
    /\ pc = "prompt"
    /\ LET loadedHost == IF Config.Host # <<>> THEN Config.Host ELSE defaultHost IN
       \E in \in {ScanError} \cup {Scanned(t) : t \in Tokens} :
          IF in.err THEN
             /\ Abort(<<"prompt", "fatal: error encountered while reading the cookie">>)
             /\ UNCHANGED Config
          ELSE IF ~HasPrefix(in.cookie, CookieName \o <<"=">>) THEN
             /\ Abort(<<"prompt", "fatal: the cookie must start with codegrinder=">>)
             /\ UNCHANGED Config
          ELSE
             /\ Config' = [Config EXCEPT !.Cookie = in.cookie, !.Host = loadedHost]
             /\ log' = log \o <<"prompt">>
             /\ pc' = "gate"
    /\ UNCHANGED <<file, home, clientVersion, cmd, flags, server, net, last>>

(* CommandInit going from the new cookie straight to the user request *)
InitCheckVersion_Skipped ==
    /\ pc = "gate"
    /\ pc' = "verify"
    /\ UNCHANGED <<file, home, Config, clientVersion, cmd, flags, server, net, log, last>>

InitCheckVersion ==
    /\ pc = "gate"
    /\ RunCheckVersion(Config, "verify")
    /\ UNCHANGED <<file, home, Config, clientVersion, cmd, flags>>

InitGetUser ==
    /\ pc = "verify"
    /\ \E resp \in Responses({}) :
        LET o == mustGetObject(Config, UsersMePath, <<>>, "User", resp) IN
        /\ net' = net \o Exchange(o)
        /\ log' = log \o o.log
        /\ last' = Call(UsersMePath, <<>>, "GET", "nil", "User", FALSE, Config, resp, o)
        /\ pc' = IF o.aborted THEN "aborted" ELSE "save"
    /\ UNCHANGED <<file, home, Config, clientVersion, cmd, flags, server>>

InitWriteConfig ==
    /\ pc = "save"
    /\ \E wr \in {"ok", "openfail", "partial"} :
        LET w == mustWriteConfig(Config, home, file, wr) IN
        /\ file' = w.file
        /\ log' = log \o w.log
                      \o (IF w.aborted THEN <<>> ELSE <<"cookie verified and saved">>)
        /\ pc' = IF w.aborted THEN "aborted" ELSE "done"
    /\ UNCHANGED <<home, Config, clientVersion, cmd, flags, server, net, last>>

(* The other commands (list, get, save, grade, create), after their        *)
(* mustLoadConfig: requests through the four wrappers of doRequest.        *)
ProblemPath == <<"/", "problems", "/", "42">>

CommandRequest ==
    /\ pc = "command"
    /\ Len(net) < 1 + MaxRequests
    /\ \E w \in {"mustGet", "get", "mustPost", "mustPut"},
          resp \in Responses({}) :
        LET o == CASE w = "mustGet" ->
                        mustGetObject(Config, ProblemPath, <<>>, "Problem", resp)
                   [] w = "get" ->
                        getObject(Config, ProblemPath, <<>>, "Problem", resp)
                   [] w = "mustPost" ->
                        mustPostObject(Config, ProblemPath, <<>>, "object", "nil", resp)
                   [] w = "mustPut" ->
                        mustPutObject(Config, ProblemPath, <<>>, "object", "Problem", resp)
        IN
        /\ net' = net \o Exchange(o)
        /\ log' = log \o o.log
        /\ last' = Call(ProblemPath, <<>>,
                        CASE w = "mustPost" -> "POST" [] w = "mustPut" -> "PUT"
                          [] OTHER -> "GET",
                        IF w \in {"mustPost", "mustPut"} THEN "object" ELSE "nil",
                        IF w = "mustPost" THEN "nil" ELSE "Problem",
                        w = "get", Config, resp, o)
        /\ pc' = IF o.aborted THEN "aborted" ELSE "command"
    /\ UNCHANGED <<file, home, Config, clientVersion, cmd, flags, server>>

CommandDone ==
    /\ pc = "command"
    /\ pc' = "done"
    /\ UNCHANGED <<file, home, Config, clientVersion, cmd, flags, server, net, log, last>>

Next ==
    \/ main
    \/ cmdVersion
    \/ mustLoadConfig
    \/ InitReadCookie
    \/ InitCheckVersion
    \/ InitGetUser
    \/ InitWriteConfig
    \/ CommandRequest
    \/ CommandDone

Spec == Init /\ [][Next]_vars

-----------------------------------------------------------------------------
(* doRequest alone: one call with arbitrary arguments and server answer,   *)
(* made by a process whose Config has been loaded.                         *)

ReqConfigs ==
    {[Host |-> h, Cookie |-> GoodCookie, apiReport |-> r, apiDump |-> d] :
        h \in {OtherHost, <<>>}, r \in BOOLEAN, d \in BOOLEAN}

ReqPaths == {ProblemPath, <<"problems">>}

ReqMethods == Methods \cup {"PATCH"}

ReqParams == {<<>>, <<<<"k", "v">>>>}

ReqUploads == {"nil", "object", "unencodable"}

ReqDownloads == {"nil", "Problem", "unencodable"}

InitReq ==
    /\ file = JSONFile(TRUE, OtherHost, TRUE, EncodeJSONString(GoodCookie))
    /\ home = TRUE
    /\ Config \in ReqConfigs
    /\ clientVersion = V210
    /\ cmd = "list"
    /\ flags = [api |-> Config.apiReport, apiDump |-> Config.apiDump]
    /\ pc = "command"
    /\ server = VersionOf(VersionBody(V200, V200))
    /\ net = <<>>
    /\ log = <<>>
    /\ last = NoCall

RequestCall ==
    /\ pc = "command"
    /\ \E path \in ReqPaths, params \in ReqParams, method \in ReqMethods,
          upload \in ReqUploads, download \in ReqDownloads,
          notfoundokay \in BOOLEAN, resp \in Responses({}) :
        LET o == doRequest(Config, path, params, method, upload, download,
                           notfoundokay, resp)
        IN
        /\ net' = net \o Exchange(o)
        /\ log' = log \o o.log
        /\ last' = Call(path, params, method, upload, download, notfoundokay,
                        Config, resp, o)
        /\ pc' = IF o.aborted THEN "aborted" ELSE "returned"
    /\ UNCHANGED <<file, home, Config, clientVersion, cmd, flags, server>>

NextReq == RequestCall

SpecReq == InitReq /\ [][NextReq]_vars

-----------------------------------------------------------------------------
(* checkVersion alone: one run of the gate, for any client version and any *)
(* answer of the server, by a process whose Config has been loaded.        *)

AllVersions ==
    {<<M, ".", m, ".", p>> : M \in {"1", "2"}, m \in {"0", "1", "2", "9"}, p \in {"0", "1"}}
      \cup {<<M, ".", "0", ".", "0", "-", r>> : M \in {"1", "2"}, r \in {"1", "2"}}

InitVer ==
    /\ file = JSONFile(TRUE, OtherHost, TRUE, EncodeJSONString(GoodCookie))
    /\ home = TRUE
    /\ Config \in {c \in ReqConfigs : c.Host = OtherHost /\ (c.apiDump => c.apiReport)}
    /\ clientVersion \in AllVersions
    /\ cmd = "list"
    /\ flags = [api |-> Config.apiReport, apiDump |-> Config.apiDump]
    /\ pc = "gate"
    /\ server = NoVersion
    /\ net = <<>>
    /\ log = <<>>
    /\ last = NoCall

GateCall ==
    /\ pc = "gate"
    /\ \E resp \in Responses({VersionBody(r, c) :
                                r, c \in AllVersions \cup {<<"2", ".", "1">>}}) :
        LET cv == checkVersion(Config, clientVersion, resp) IN
        /\ net' = net \o Exchange(cv.o)
        /\ log' = log \o cv.log
        /\ server' = cv.server
        /\ last' = Call(VersionPath, <<>>, "GET", "nil", "Version", FALSE,
                        Config, resp, cv.o)
        /\ pc' = IF cv.aborted THEN "aborted" ELSE "passed"
    /\ UNCHANGED <<file, home, Config, clientVersion, cmd, flags>>

NextVer == GateCall

SpecVer == InitVer /\ [][NextVer]_vars

-----------------------------------------------------------------------------
(* Properties.                                                             *)

LastLine == IF log = <<>> THEN "" ELSE log[Len(log)]

IsGet(e, path) == e.req.method = "GET" /\ e.req.path = <<"/v2">> \o path

(* semantic-version precedence, stated on its own: a version is its        *)
(* position in the order of all versions                                   *)
Rank(s) ==
    LET v == ParseVersion(s) IN
    ((v.Major * 10 + v.Minor) * 10 + v.Patch) * 11
        + (IF v.Pre = <<>> THEN 10 ELSE v.Pre[1])

Less(a, b) == Rank(a) < Rank(b)

(* C1: in the bootstrap flow the config file changes only in the save step *)
(* that follows a GET /users/me sent with the new cookie and answered 200  *)
(* with a decodable body; every step that fails before it leaves the file  *)
(* as it was.                                                              *)
C1_WriteOnlyAfterVerify ==
    [][file' # file =>
        /\ cmd = "init" /\ pc = "save"
        /\ net # <<>>
        /\ IsGet(net[Len(net)], UsersMePath)
        /\ net[Len(net)].req.cookie = Config.Cookie
        /\ net[Len(net)].status = StatusOK
        /\ last.path = UsersMePath /\ last.out.ret]_vars

C1_Witness ==
    /\ cmd = "init" /\ pc = "done"
    /\ file = MarshalConfig(Config)
    /\ Config.Cookie = GoodCookie /\ Config.Host = OtherHost
    /\ IsGet(net[Len(net)], UsersMePath) /\ net[Len(net)].status = StatusOK

(* C2: for a server answer with two valid versions: a required version     *)
(* above the client's aborts; a required version not above it does not     *)
(* abort; and then a recommended version above the client's logs a warning *)
(* and the gate lets the command continue.                                 *)
C2_VersionGate ==
    (/\ last # NoCall
     /\ ~last.resp.err /\ last.resp.status = StatusOK
     /\ last.resp.body.kind = "version"
     /\ ValidVersion(last.resp.body.required)
     /\ ValidVersion(last.resp.body.recommended))
    => LET required == last.resp.body.required
           recommended == last.resp.body.recommended
       IN  /\ Less(clientVersion, required) => pc = "aborted"
           /\ ~Less(clientVersion, required) => pc = "passed"
           /\ (~Less(clientVersion, required) /\ Less(clientVersion, recommended))
                => /\ pc = "passed"
                   /\ "the server recommends a higher version" \in Range(log)

C2_Witness ==
    /\ pc = "passed"
    /\ clientVersion = V210
    /\ server = VersionOf(VersionBody(V200, V220))
    /\ "the server recommends a higher version" \in Range(log)

(* C3: when mustLoadConfig returns, a GET /version of this invocation was  *)
(* answered 200 and the required version it carried is not above the       *)
(* client's; and whenever a request to another path is issued, that holds. *)
GatePassed ==
    /\ server # NoVersion
    /\ ValidVersion(server.GrindVersionRequired)
    /\ ~Less(clientVersion, server.GrindVersionRequired)
    /\ \E i \in 1..Len(net) : IsGet(net[i], VersionPath) /\ net[i].status = StatusOK

C3_NoUncheckedVersion ==
    [][/\ (pc = "load" /\ pc' \in {"prompt", "command"}) => GatePassed'
       /\ (Len(net') > Len(net) /\ ~IsGet(net'[Len(net')], VersionPath))
            => GatePassed]_vars

C3_Witness ==
    /\ cmd = "init" /\ pc = "save"
    /\ Len(net) = 3
    /\ IsGet(net[1], VersionPath) /\ net[1].status = StatusOK
    /\ IsGet(net[3], UsersMePath)
    /\ GatePassed

(* C4 as claimed: doRequest returns false without aborting exactly when    *)
(* the status is 404 and notfoundokay is true.                             *)
C4_FalseExactlyOnTolerated404 ==
    last # NoCall =>
        ((~last.out.aborted /\ ~last.out.ret)
            <=> (last.out.received /\ last.notfoundokay
                    /\ last.resp.status = StatusNotFound))

(* C4 amended: doRequest returns false without aborting exactly when the   *)
(* status is 404 and notfoundokay is true, or the status is 200 and the    *)
(* download target is nil.                                                 *)
C4_FalseOnTolerated404OrNoDownload ==
    last # NoCall =>
        ((~last.out.aborted /\ ~last.out.ret)
            <=> /\ last.out.received
                /\ \/ last.notfoundokay /\ last.resp.status = StatusNotFound
                   \/ last.resp.status = StatusOK /\ last.download = "nil")

C4_Witness ==
    /\ pc = "returned"
    /\ last.notfoundokay /\ last.resp.status = StatusNotFound
    /\ ~last.out.ret

(* C5: a response whose status is not 2xx aborts the process, its body     *)
(* copied to stderr first, unless the status is 404 and notfoundokay is    *)
(* true.                                                                   *)
C5_Non2xxAborts ==
    (/\ last # NoCall
     /\ last.out.received
     /\ last.resp.status \notin 200..299
     /\ ~(last.notfoundokay /\ last.resp.status = StatusNotFound))
    => /\ pc = "aborted"
       /\ last.out.aborted
       /\ \E i \in 1..Len(log) :
            /\ log[i] = "stderr: response body"
            /\ i < Len(log) /\ log[Len(log)] = "fatal: giving up"

C5_Witness ==
    /\ pc = "aborted"
    /\ last # NoCall
    /\ last.out.received
    /\ last.notfoundokay /\ last.resp.status = 403
    /\ "stderr: response body" \in Range(log)

(* C6 as claimed: when init aborts because the token does not start with   *)
(* CookieName "=", no request has been sent in that invocation.            *)
C6_BadCookieAbortsBeforeNetwork ==
    (/\ cmd = "init" /\ pc = "aborted"
     /\ LastLine = "fatal: the cookie must start with codegrinder=")
    => net = <<>>

(* C7 as claimed: init does not need a config file: it never aborts        *)
(* because the file is absent or cannot be parsed.                         *)
C7_InitNeedsNoConfig ==
    (cmd = "init" /\ pc = "aborted")
    => LastLine \notin {"fatal: Unable to load config file; try running grind init",
                        "fatal: you may wish to try deleting the file"}

C9_OnlyWellFormedCookieSent ==
    \A i \in 1..Len(net) : HasPrefix(net[i].req.cookie, CookieName \o <<"=">>)

(* C10 as claimed: the same call with the same answer has the same outcome *)
(* (abort or return value, request sent, object decoded) whatever          *)
(* apiReport and apiDump are.                                              *)
Control(o) == <<o.aborted, o.ret, o.sent, o.req, o.received>>

C10_FlagsDoNotAlterControl ==
    last # NoCall =>
        \A r \in BOOLEAN, d \in BOOLEAN :
            Control(doRequest([last.cfg EXCEPT !.apiReport = r, !.apiDump = d],
                              last.path, last.params, last.method, last.upload,
                              last.download, last.notfoundokay, last.resp))
                = Control(last.out)

(* C11: a call whose path does not begin with "/" or whose method is not   *)
(* GET, POST, PUT or DELETE aborts at once: no request is built or sent    *)
(* and nothing is logged before the panic.                                 *)
C11_ProgrammerErrorsAbortFirst ==
    (/\ last # NoCall
     /\ \/ last.path = <<>>
        \/ last.path[1] # "/"
        \/ last.method \notin {"GET", "POST", "PUT", "DELETE"})
    => /\ pc = "aborted"
       /\ last.out.aborted /\ ~last.out.sent
       /\ last.out.req = NoRequest
       /\ net = <<>>
       /\ Len(log) = 1

C11_Witness ==
    /\ pc = "aborted"
    /\ last # NoCall
    /\ last.path = ProblemPath /\ last.method = "PATCH"
    /\ net = <<>>

(* C12: the request carries a body and the header Content-Type:            *)
(* application/json exactly when the upload is not nil and the method is   *)
(* POST or PUT; a GET or DELETE request carries neither.                   *)
C12_BodyOnlyOnPostPut ==
    (last # NoCall /\ last.out.req # NoRequest)
    => LET req == last.out.req
           wanted == last.upload # "nil" /\ last.method \in {"POST", "PUT"}
       IN  /\ (req.body # "nil") <=> wanted
           /\ (req.contentType = "application/json") <=> wanted
           /\ wanted => req.body = last.upload
           /\ req.method \in {"GET", "DELETE"}
                => (req.body = "nil" /\ req.contentType = "")
           /\ last.out.sent => net[Len(net)].req = req

C12_Witness ==
    /\ last # NoCall
    /\ last.out.sent
    /\ last.method = "DELETE" /\ last.upload = "object"
    /\ net[1].req.body = "nil" /\ net[1].req.contentType = ""

(* C13 as claimed: a request made with an empty host in Config is          *)
(* addressed to the built-in default host.                                 *)
C13_EmptyHostDefaults ==
    (/\ last # NoCall
     /\ last.out.req # NoRequest
     /\ last.cfg.Host = <<>>)
    => last.out.req.host = defaultHost

(* the server answered 200 with two valid versions, neither above the      *)
(* client's                                                                *)
ThresholdsNotAbove(resp, current) ==
    /\ ~resp.err /\ resp.status = StatusOK
    /\ resp.body.kind = "version"
    /\ ValidVersion(resp.body.required)
    /\ ValidVersion(resp.body.recommended)
    /\ ~Less(current, resp.body.required)
    /\ ~Less(current, resp.body.recommended)

(* C14 as claimed: with both thresholds equal to or below the client       *)
(* version the gate passes and has logged nothing.                         *)
C14_GateIsSilent ==
    (last # NoCall /\ ThresholdsNotAbove(last.resp, clientVersion))
    => (pc = "passed" /\ log = <<>>)

(* C14 amended: with both thresholds equal to or below the client version  *)
(* the gate does not abort, leaves Config, the config file and the         *)
(* environment as they were, and logs nothing but the diagnostics of its   *)
(* request that --api and --api-dump ask for (nothing when both are off).  *)
C14_GateLogsOnlyDiagnostics ==
    [][(pc = "gate" /\ last' # NoCall
            /\ ThresholdsNotAbove(last'.resp, clientVersion))
        => /\ pc' = "passed"
           /\ log' = log \o (IF Config.apiReport THEN <<"api">> ELSE <<>>)
                         \o (IF Config.apiDump THEN <<"Response data">> ELSE <<>>)
           /\ Config' = Config
           /\ file' = file
           /\ home' = home]_vars

C14_Witness ==
    /\ pc = "passed"
    /\ clientVersion = V210
    /\ server = VersionOf(VersionBody(V200, V210))
    /\ ~Config.apiReport /\ ~Config.apiDump
    /\ log = <<>>

(* C15: the config file never holds anything but host and cookie, and a    *)
(* flag is set in Config only if this invocation's command line asks for   *)
(* it: a flag of an earlier invocation is not in effect.                   *)
C15_FlagsNotPersisted ==
    /\ file.kind = "json"
        => DOMAIN file = {"kind", "hasHost", "host", "hasCookie", "cookie"}
    /\ Config.apiReport => (flags.api \/ flags.apiDump)
    /\ Config.apiDump => flags.apiDump

C15_Witness ==
    /\ cmd = "list" /\ pc = "command"
    /\ ~flags.api /\ ~flags.apiDump
    /\ ~Config.apiReport /\ ~Config.apiDump
    /\ file = MarshalConfig([ZeroConfig EXCEPT !.Host = OtherHost,
                                               !.Cookie = OddCookie])

(* C16 as claimed: whenever doRequest has received a response, the         *)
(* response body has been closed when the call returns or the process      *)
(* exits.                                                                  *)
C16_BodyClosedOnEveryPath ==
    (last # NoCall /\ last.out.received) => last.out.closed

(* C17: in init, once the token is accepted Config holds the new host and  *)
(* cookie; a GET /users/me is sent only right after a GET /version that    *)
(* carried the same (new) cookie and passed the gate; there is never more  *)
(* than one; and the config is saved only after it, so that a finished     *)
(* init has made exactly the exchanges: the gate of the load, the gate     *)
(* with the new cookie, GET /users/me with the new cookie.                 *)
WellFormedCookie(c) ==
    Len(c) >= 2 /\ <<c[1]>> = CookieName /\ c[2] = "="

C17_BootstrapOrder ==
    cmd = "init" =>
        /\ pc \in {"gate", "verify", "save", "done"}
            => (WellFormedCookie(Config.Cookie) /\ Config.Host # <<>>)
        /\ \A i \in 1..Len(net) :
            IsGet(net[i], UsersMePath)
                => /\ i = 3
                   /\ Len(net) = 3
                   /\ pc \notin {"load", "prompt", "gate", "verify"}
                   /\ IsGet(net[2], VersionPath)
                   /\ net[2].status = StatusOK
                   /\ net[2].req.cookie = Config.Cookie
                   /\ net[2].req.host = Config.Host
                   /\ net[3].req.cookie = Config.Cookie
                   /\ net[3].req.host = Config.Host
        /\ pc \in {"save", "done"}
            => (Len(net) = 3 /\ IsGet(net[3], UsersMePath)
                    /\ net[3].status = StatusOK /\ GatePassed)
        /\ pc = "done" => file = MarshalConfig(Config)

C17_Witness ==
    /\ cmd = "init" /\ pc = "done"
    /\ Len(net) = 3
    /\ net[1].req.cookie = GoodCookie
    /\ net[2].req.cookie = OddCookie
    /\ IsGet(net[3], UsersMePath) /\ net[3].req.cookie = OddCookie
    /\ file = MarshalConfig(Config)

(* C18 as claimed: a response with a 2xx status is a success: the process  *)
(* is not ended for its status, and with a download target and a JSON body *)
(* the call returns true with the body decoded.                            *)
C18_Every2xxIsSuccess ==
    (last # NoCall /\ last.out.received /\ last.resp.status \in 200..299)
    => /\ "fatal: giving up" \notin Range(last.out.log)
       /\ (last.download = "nil") => ~last.out.aborted
       /\ (last.download = "Problem" /\ last.resp.body.kind # "badjson")
            => (~last.out.aborted /\ last.out.decoded = last.resp.body)

-----------------------------------------------------------------------------
(* Invocations that start from no config file or from a well-formed one.   *)

WellFormedFile(f) ==
    /\ ValidJSON(f)
    /\ f.hasHost /\ DecodeJSONString(f.host) # <<>>
    /\ f.hasCookie /\ WellFormedCookie(DecodeJSONString(f.cookie))

InitWF ==
    /\ Init
    /\ file = NoFile \/ WellFormedFile(file)

SpecWF == InitWF /\ [][Next]_vars

(* C19 as claimed: starting from an absent or well-formed file, after any  *)
(* runs the file is absent or holds a non-empty host and a cookie that     *)
(* starts with CookieName "=".                                             *)
C19_FileStaysWellFormed ==
    file = NoFile \/ WellFormedFile(file)

(* C19 amended: the file changes only in the save step of init, and what   *)
(* a completed write leaves holds a non-empty host and a cookie that       *)
(* starts with CookieName "="; the file is left otherwise only by a write  *)
(* that fails after ioutil.WriteFile has truncated the file, which ends    *)
(* the run with "error writing".                                           *)
C19_CompletedWriteIsWellFormed ==
    [][file' # file =>
        /\ cmd = "init" /\ pc = "save"
        /\ \/ pc' = "done" /\ WellFormedFile(file')
           \/ /\ pc' = "aborted"
              /\ file' = Garbage
              /\ log'[Len(log')] = "fatal: error writing"]_vars

C19_Witness ==
    /\ cmd = "init" /\ pc = "done"
    /\ WellFormedFile(file)
    /\ file = MarshalConfig([ZeroConfig EXCEPT !.Host = OtherHost,
                                               !.Cookie = OddCookie])

(* C20: when doRequest returns, it returns true exactly when the status    *)
(* was 200 and the download target was not nil; so a GET with              *)
(* notfoundokay and a nil target returns false for a 200 and for a 404.    *)
C20_TrueIffDownloaded ==
    last # NoCall =>
        /\ ~last.out.aborted
            => (last.out.ret
                  <=> (last.resp.status = StatusOK /\ last.download # "nil"))
        /\ (/\ last.method = "GET" /\ last.notfoundokay /\ last.download = "nil"
            /\ last.out.received
            /\ last.resp.status \in {StatusOK, StatusNotFound})
            => (pc = "returned" /\ ~last.out.ret)

C20_Witness ==
    /\ pc = "returned"
    /\ last.method = "GET" /\ last.notfoundokay /\ last.download = "nil"
    /\ last.resp.status = StatusOK
    /\ ~last.out.ret

====
